---- MODULE Spec2Model ----
(***************************************************************************)
(* Model of the openai_compatible_stt custom component.                    *)
(*                                                                         *)
(*   config_flow.py : generate_unique_id, validate_user_input and          *)
(*                    OpenAISTTConfigFlow.async_step_user                  *)
(*   stt.py         : OpenAICompatibleSTTEntity.async_process_audio_stream *)
(*                                                                         *)
(* Strings are sequences of one-character strings, so that parsing and     *)
(* formatting are computed and not assumed.  Python's None is the          *)
(* one-element sequence None, which no string of characters equals.        *)
(***************************************************************************)
EXTENDS Integers, Sequences, FiniteSets, TLC

VARIABLES
    entries,    \* the host's persisted config entries of this domain
    flows,      \* one record per config flow instance
    last,       \* the flow result most recently returned
    calls,      \* one record per invocation of async_process_audio_stream
    files,      \* staging files present on disk
    remote      \* log of the requests received by the transcription client

vars == <<entries, flows, last, calls, files, remote>>

flowVars == <<entries, flows, last>>
sttVars == <<calls, files, remote>>

(***************************************************************************)
(* Bounds                                                                  *)
(***************************************************************************)
MaxFlows == 2       \* config flow instances that exist side by side
MaxEntries == 2     \* persisted entries the store is explored up to
MaxCalls == 2       \* invocations of async_process_audio_stream

Flows == 1..MaxFlows
Calls == 1..MaxCalls

None == <<"<None>">>

(***************************************************************************)
(* Sequence helpers (str.find, str.partition, str.rpartition, str.lower)   *)
(***************************************************************************)
\* str.find(c, start) with 1-based positions; 0 when c does not occur
Find(s, c, start) ==
    LET hits == {i \in start..Len(s) : s[i] = c}
    IN  IF hits = {} THEN 0 ELSE CHOOSE i \in hits : \A j \in hits : i <= j

\* str.rfind(c); 0 when c does not occur
RFind(s, c) ==
    LET hits == {i \in 1..Len(s) : s[i] = c}
    IN  IF hits = {} THEN 0 ELSE CHOOSE i \in hits : \A j \in hits : i >= j

Slice(s, from, to) == IF from > to THEN <<>> ELSE SubSeq(s, from, to)

\* str.partition(c)[0] and [2]
PartitionHead(s, c) ==
    LET i == Find(s, c, 1) IN IF i = 0 THEN s ELSE Slice(s, 1, i - 1)
PartitionTail(s, c) ==
    LET i == Find(s, c, 1) IN IF i = 0 THEN <<>> ELSE Slice(s, i + 1, Len(s))

\* str.rpartition(c)[2]
RPartitionTail(s, c) ==
    LET i == RFind(s, c) IN IF i = 0 THEN s ELSE Slice(s, i + 1, Len(s))

Upper == {"A", "P", "I", "H", "T"}
LowerChar(c) ==
    CASE c = "A" -> "a"
      [] c = "P" -> "p"
      [] c = "I" -> "i"
      [] c = "H" -> "h"
      [] c = "T" -> "t"
      [] OTHER -> c
Lower(s) == [i \in 1..Len(s) |-> LowerChar(s[i])]

Letters == {"a", "b", "c", "e", "h", "i", "m", "n", "o", "p", "r", "s", "t",
            "u", "v", "w", "k", "N"} \cup Upper
Digits == {"1", "3", "4"}
SchemeChars == Letters \cup Digits \cup {"+", "-", "."}

(***************************************************************************)
(* urllib.parse.urlparse(url).hostname, as far as the netloc is concerned. *)
(* The URLs explored contain no whitespace, no '%' and no non-ASCII        *)
(* characters, so the stripping, zone and NFKC steps of urlsplit are       *)
(* no-ops on them and are left out.                                        *)
(***************************************************************************)
\* the part of the url after the scheme, when the url has one
AfterScheme(url) ==
    LET i == Find(url, ":", 1)
    IN  IF /\ i > 1
           /\ url[1] \in Letters
           /\ \A j \in 1..(i - 1) : url[j] \in SchemeChars
        THEN Slice(url, i + 1, Len(url))
        ELSE url

Min(S) == CHOOSE x \in S : \A y \in S : x <= y

\* _splitnetloc(url, 2): the text between "//" and the first of "/?#"
Netloc(url) ==
    LET rest == AfterScheme(url)
        ends == {Find(rest, c, 3) : c \in {"/", "?", "#"}} \ {0}
        delim == Min(ends \cup {Len(rest) + 1})
    IN  IF Len(rest) >= 2 /\ rest[1] = "/" /\ rest[2] = "/"
        THEN Slice(rest, 3, delim - 1)
        ELSE <<>>

Has(s, c) == Find(s, c, 1) # 0

\* urlsplit raises ValueError("Invalid IPv6 URL") on an unmatched bracket
UrlRaises(url) ==
    LET n == Netloc(url)
    IN  \/ Has(n, "[") /\ ~Has(n, "]")
        \/ Has(n, "]") /\ ~Has(n, "[")

\* SplitResult.hostname: None when the host part is empty
hostname(url) ==
    LET hostinfo == RPartitionTail(Netloc(url), "@")
        host == IF Has(hostinfo, "[")
                THEN PartitionHead(PartitionTail(hostinfo, "["), "]")
                ELSE PartitionHead(hostinfo, ":")
    IN  IF host = <<>> THEN None ELSE Lower(host)

\* str(x) inside an f-string
Format(x) == IF x = None THEN <<"N", "o", "n", "e">> ELSE x

(***************************************************************************)
(* Submissions explored.  A missing key of the user_input dict is None.    *)
(***************************************************************************)
\* "https://api.openai.com/v1/", the default of the form
UrlDefault ==
    <<"h", "t", "t", "p", "s", ":", "/", "/", "a", "p", "i", ".", "o", "p",
      "e", "n", "a", "i", ".", "c", "o", "m", "/", "v", "1", "/">>
\* "HTTP://u@API.openai.com:443?v", the same host written differently
UrlVariant ==
    <<"H", "T", "T", "P", ":", "/", "/", "u", "@", "A", "P", "I", ".", "o",
      "p", "e", "n", "a", "i", ".", "c", "o", "m", ":", "4", "4", "3", "?",
      "v">>
\* "h/v1", no scheme and no netloc: the hostname is None
UrlNoScheme == <<"h", "/", "v", "1">>
\* "http://[h/", an unmatched bracket
UrlBadBracket == <<"h", "t", "t", "p", ":", "/", "/", "[", "h", "/">>

Urls == {UrlDefault, UrlVariant, UrlNoScheme, UrlBadBracket, None}

ModelWhisper == <<"w", "h", "i", "s", "p", "e", "r", "-", "1">>
ModelB == <<"b">>
ModelEmpty == <<>>
Models == {None, ModelEmpty, ModelWhisper, ModelB}

UserInputs == [url : Urls, model : Models]

\* urlparse(url) of every url explored, computed once: whether it raises
\* and its .hostname
Parsed == [url \in Urls |-> [raises |-> UrlRaises(url),
                             hostname |-> hostname(url)]]

(***************************************************************************)
(* config_flow.py                                                          *)
(***************************************************************************)
\* f"{url.hostname}_{user_input[CONF_MODEL]}"
LegacyUniqueId(user_input) == Format(user_input.model)
generate_unique_id(user_input) ==
    Format(Parsed[user_input.url].hostname) \o <<"_">> \o Format(user_input.model)

\* TRUE when validate_user_input raises ValueError("Model is required")
validate_user_input(user_input) == user_input.model = None

\* ConfigFlow._abort_if_unique_id_configured raises AbortFlow
NeverAborts(es, unique_id) == FALSE
AbortIfUniqueIdConfigured(es, unique_id) ==
    \E e \in es : e.unique_id = unique_id

EntryTitle(user_input) ==
    <<"OpenAI Compatible STT (">>
        \o Format(Parsed[user_input.url].hostname)
        \o <<", ">> \o Format(user_input.model) \o <<")">>

NoErrors == {}

\* lines 80-85: async_show_form(step_id="user", errors=errors)
ShowFormResult(errors) ==
    [type |-> "form", step_id |-> "user", reason |-> "", errors |-> errors,
     unique_id |-> None]

\* lines 71-79: errors["base"] = message, then the form is shown again
FormWithErrorMissing(message) == ShowFormResult(NoErrors)
FormWithError(message) == ShowFormResult({<<"base", message>>})

\* line 70: async_abort(reason="already_configured")
AbortResult(unique_id) ==
    [type |-> "abort", step_id |-> "", reason |-> "already_configured",
     errors |-> NoErrors, unique_id |-> unique_id]

\* lines 61-68: async_create_entry(title=..., data=user_input), where
\* user_input carries the unique id
CreateEntryResult(user_input, unique_id) ==
    [type |-> "create_entry", step_id |-> "", reason |-> "",
     errors |-> NoErrors, unique_id |-> unique_id,
     entry |-> [unique_id |-> unique_id,
                title |-> EntryTitle(user_input),
                data |-> [url |-> user_input.url,
                          model |-> user_input.model,
                          unique_id |-> unique_id]]]

\* The result of async_step_user(user_input) for user_input # None, given
\* the persisted entries es.  A missing url is a KeyError, which the last
\* except clause reports as unknown_error.
async_step_user(es, user_input) ==
    IF validate_user_input(user_input)
    THEN FormWithError("Model is required")
    ELSE IF user_input.url = None
    THEN FormWithError("unknown_error")
    ELSE IF Parsed[user_input.url].raises
    THEN FormWithError("Invalid IPv6 URL")
    ELSE LET unique_id == generate_unique_id(user_input)
         IN  IF AbortIfUniqueIdConfigured(es, unique_id)
             THEN AbortResult(unique_id)
             ELSE CreateEntryResult(user_input, unique_id)

(***************************************************************************)
(* Config flow: state and actions.  A flow that ends in create_entry or    *)
(* abort is removed by the host; a flow that shows a form stays open.      *)
(* last is the flow result most recently returned by async_step_user.      *)
(***************************************************************************)
IdleFlow == [state |-> "idle", errors |-> NoErrors]

NoLast ==
    [flow |-> 0, type |-> "none", step_id |-> "", reason |-> "",
     errors |-> NoErrors, unique_id |-> None, submitted |-> FALSE,
     model |-> None, resubmitted |-> FALSE]

\* async_step_user(None): the host opens a flow and the form is shown
ShowForm(f) ==
    /\ flows[f].state = "idle"
    /\ flows' = [flows EXCEPT ![f] = [state |-> "form", errors |-> NoErrors]]
    /\ last' = [NoLast EXCEPT !.flow = f, !.type = "form",
                              !.step_id = "user"]
    /\ UNCHANGED <<entries, sttVars>>

\* async_step_user(user_input): the user submits the form; the host
\* persists the entry of a create_entry result
Submit(f, user_input) ==
    \E r \in {async_step_user(entries, user_input)} :
        /\ flows[f].state = "form"
        /\ r.type = "create_entry" => Cardinality(entries) < MaxEntries
        /\ flows' = [flows EXCEPT ![f] =
                        IF r.type = "form"
                        THEN [state |-> "form", errors |-> r.errors]
                        ELSE IdleFlow]
        /\ last' = [flow |-> f, type |-> r.type, step_id |-> r.step_id,
                    reason |-> r.reason, errors |-> r.errors,
                    unique_id |-> r.unique_id, submitted |-> TRUE,
                    model |-> user_input.model,
                    resubmitted |-> flows[f].errors # NoErrors]
        /\ entries' = IF r.type = "create_entry"
                      THEN entries \cup {r.entry}
                      ELSE entries
        /\ UNCHANGED sttVars

NextFlow ==
    \/ \E f \in Flows : ShowForm(f)
    \/ \E f \in Flows : \E user_input \in UserInputs : Submit(f, user_input)

(***************************************************************************)
(* stt.py                                                                  *)
(***************************************************************************)
SampWidth == 2              \* wav_file.setsampwidth(2)
ChannelMono == 1            \* metadata.channel, AudioChannels.CHANNEL_MONO
SampleRate == 16000         \* metadata.sample_rate, SAMPLERATE_16000
Language == "en"            \* metadata.language

Bytes == 1..3
\* the chunk streams the host hands to the entity
Streams ==
    { <<>>,
      << <<>> >>,
      << <<1>> >>,
      << <<1>>, <<2, 3>> >>,
      << <<2>>, <<>>, <<1>> >> }

\* what the awaited transcriptions.create call can do
Texts == {"", "hello"}
Responses ==
    [kind : {"ok"}, text : Texts]
        \cup {[kind |-> "error", text |-> ""],
              [kind |-> "malformed", text |-> ""]}

\* what creating and writing the staging file can do
Stagings == {"ok", "tempfile_fails", "write_fails"}

NoResult == [text |-> "", state |-> "NONE"]
SpeechResult(text, state) == [text |-> text, state |-> state]
NoResponse == [kind |-> "none", text |-> ""]

IdleCall ==
    [pc |-> "idle", stream |-> <<>>, fails |-> FALSE, pos |-> 0,
     data |-> <<>>, nreq |-> 0, response |-> NoResponse,
     result |-> NoResult]

\* the file wave.open(...) leaves behind once wav_file is closed
WavFile(data) ==
    [nchannels |-> ChannelMono, sampwidth |-> SampWidth,
     framerate |-> SampleRate,
     nframes |-> Len(data) \div (SampWidth * ChannelMono),
     frames |-> data]

\* a staging file whose writing was interrupted
PartialFile == [nchannels |-> 0, sampwidth |-> 0, framerate |-> 0,
                nframes |-> 0, frames |-> <<>>]

\* the host calls async_process_audio_stream(metadata, stream): data = b""
Start(c) ==
    /\ calls[c].pc = "idle"
    /\ \E stream \in Streams, fails \in BOOLEAN :
          calls' = [calls EXCEPT ![c] =
                       [IdleCall EXCEPT !.pc = "reading",
                                        !.stream = stream,
                                        !.fails = fails]]
    /\ UNCHANGED <<files, remote, flowVars>>

\* one round of "async for chunk in stream: data += chunk"
ReadChunkShared(c) ==
    /\ calls[c].pc = "reading"
    /\ calls[c].pos < Len(calls[c].stream)
    /\ calls' = [d \in Calls |->
                    IF d = c
                    THEN [calls[d] EXCEPT
                            !.data = @ \o calls[c].stream[calls[c].pos + 1],
                            !.pos = @ + 1]
                    ELSE IF calls[d].pc = "reading"
                    THEN [calls[d] EXCEPT
                            !.data = @ \o calls[c].stream[calls[c].pos + 1]]
                    ELSE calls[d]]
    /\ UNCHANGED <<files, remote, flowVars>>
ReadChunk(c) ==
    /\ calls[c].pc = "reading"
    /\ calls[c].pos < Len(calls[c].stream)
    /\ calls' = [calls EXCEPT
                    ![c].data = @ \o calls[c].stream[calls[c].pos + 1],
                    ![c].pos = @ + 1]
    /\ UNCHANGED <<files, remote, flowVars>>

\* the stream raises instead of ending: the loop is outside the try block
StreamRaises(c) ==
    /\ calls[c].pc = "reading"
    /\ calls[c].pos = Len(calls[c].stream)
    /\ calls[c].fails
    /\ calls' = [calls EXCEPT ![c].pc = "raised"]
    /\ UNCHANGED <<files, remote, flowVars>>

\* "if not data: return SpeechResult("", ERROR)"
ReturnEmpty(c) ==
    /\ calls' = [calls EXCEPT ![c].pc = "done",
                              ![c].result = SpeechResult("", "ERROR")]
    /\ UNCHANGED <<files, remote>>

\* NamedTemporaryFile(delete=False), wave.open ... writeframes(data), and
\* the call of transcriptions.create up to its suspension
Stage(c, staging) ==
    CASE staging = "tempfile_fails" ->
                /\ calls' = [calls EXCEPT
                                ![c].pc = "done",
                                ![c].result = SpeechResult("", "ERROR")]
                /\ UNCHANGED <<files, remote>>
      [] staging = "write_fails" ->
                /\ calls' = [calls EXCEPT
                                ![c].pc = "done",
                                ![c].result = SpeechResult("", "ERROR")]
                /\ files' = files \cup {[name |-> c, wav |-> PartialFile]}
                /\ UNCHANGED remote
      [] staging = "ok" ->
                /\ calls' = [calls EXCEPT ![c].pc = "awaiting",
                                          ![c].nreq = @ + 1]
                /\ files' = files \cup
                                {[name |-> c, wav |-> WavFile(calls[c].data)]}
                /\ remote' = remote \cup
                                {[call |-> c, model |-> ModelWhisper,
                                  language |-> Language,
                                  file |-> WavFile(calls[c].data)]}

\* the stream ends: everything up to the next suspension or return
StreamEndUnchecked(c) ==
    /\ calls[c].pc = "reading"
    /\ calls[c].pos = Len(calls[c].stream)
    /\ ~calls[c].fails
    /\ \E staging \in Stagings : Stage(c, staging)
    /\ UNCHANGED flowVars
StreamEnd(c) ==
    /\ calls[c].pc = "reading"
    /\ calls[c].pos = Len(calls[c].stream)
    /\ ~calls[c].fails
    /\ IF calls[c].data = <<>>
       THEN ReturnEmpty(c)
       ELSE \E staging \in Stagings : Stage(c, staging)
    /\ UNCHANGED flowVars

\* the awaited remote call completes; the with block closes the file
RemoteReturnSuccessAlways(c) ==
    /\ calls[c].pc = "awaiting"
    /\ \E response \in Responses :
          calls' = [calls EXCEPT
                       ![c].pc = "done",
                       ![c].response = response,
                       ![c].result = SpeechResult(response.text, "SUCCESS")]
    /\ UNCHANGED <<files, remote, flowVars>>
RemoteReturnRetries(c) ==
    /\ calls[c].pc = "awaiting"
    /\ \E response \in Responses :
          IF response.kind = "error" /\ calls[c].nreq < 2
          THEN calls' = [calls EXCEPT ![c].nreq = @ + 1]
          ELSE calls' = [calls EXCEPT
                            ![c].pc = "done",
                            ![c].response = response,
                            ![c].result =
                                IF response.kind = "ok"
                                THEN SpeechResult(response.text, "SUCCESS")
                                ELSE SpeechResult("", "ERROR")]
    /\ UNCHANGED <<files, remote, flowVars>>
RemoteReturn(c) ==
    /\ calls[c].pc = "awaiting"
    /\ \E response \in Responses :
          calls' = [calls EXCEPT
                       ![c].pc = "done",
                       ![c].response = response,
                       ![c].result =
                            IF response.kind = "ok"
                            THEN SpeechResult(response.text, "SUCCESS")
                            ELSE SpeechResult("", "ERROR")]
    /\ UNCHANGED <<files, remote, flowVars>>

NextStt ==
    \/ \E c \in Calls : Start(c)
    \/ \E c \in Calls : ReadChunk(c)
    \/ \E c \in Calls : StreamRaises(c)
    \/ \E c \in Calls : StreamEnd(c)
    \/ \E c \in Calls : RemoteReturn(c)

(***************************************************************************)
(* Specifications                                                          *)
(***************************************************************************)
Init ==
    /\ entries = {}
    /\ flows = [f \in Flows |-> IdleFlow]
    /\ last = NoLast
    /\ calls = [c \in Calls |-> IdleCall]
    /\ files = {}
    /\ remote = {}

\* the setup wizard
FlowSpec == Init /\ [][NextFlow]_vars

\* the transcription entity
SttSpec == Init /\ [][NextStt]_vars


(***************************************************************************)
(* Properties of the setup wizard (checked under FlowSpec)                 *)
(***************************************************************************)
RECURSIVE Flatten(_)
\* the concatenation of a sequence of chunks
Flatten(chunks) ==
    IF chunks = <<>> THEN <<>> ELSE Head(chunks) \o Flatten(Tail(chunks))

\* the (hostname, model) pair of a persisted entry
HostModel(e) == <<hostname(e.data.url), e.data.model>>

\* a submission found an entry with its unique id already persisted
DuplicateSubmission ==
    /\ last'.submitted
    /\ last'.unique_id # None
    /\ \E e \in entries : e.unique_id = last'.unique_id

\* C1: the persisted entries hold at most one entry per (hostname, model)
\* pair, and a submission whose unique id is already persisted aborts with
\* reason already_configured and adds no entry.
C1_OneEntryPerHostModel ==
    /\ [](\A e1, e2 \in entries : HostModel(e1) = HostModel(e2) => e1 = e2)
    /\ [][DuplicateSubmission =>
            /\ last'.type = "abort"
            /\ last'.reason = "already_configured"
            /\ entries' = entries]_vars

C1_Witness ==
    /\ last.submitted
    /\ last.type = "abort"
    /\ \E e \in entries :
          /\ e.unique_id = last.unique_id
          /\ e.data.model = last.model

\* C7: a submission whose model is missing or empty shows the form of step
\* user again with a non-empty errors map.
C7_MissingOrEmptyModelIsRejected ==
    (last.submitted /\ last.model \in {None, ModelEmpty}) =>
        /\ last.type = "form"
        /\ last.step_id = "user"
        /\ last.errors # NoErrors

\* "api.openai.com_whisper-1"
UniqueIdExample ==
    <<"a", "p", "i", ".", "o", "p", "e", "n", "a", "i", ".", "c", "o", "m",
      "_", "w", "h", "i", "s", "p", "e", "r", "-", "1">>

\* C8: every persisted entry carries hostname(base_url) + "_" + model as its
\* unique id, in its data and as the unique id of the flow that created it.
C8_UniqueIdIsHostnameAndModel ==
    /\ \A e \in entries :
          /\ e.unique_id =
                Format(hostname(e.data.url)) \o <<"_">> \o e.data.model
          /\ e.data.unique_id = e.unique_id
          /\ (e.data.url = UrlDefault /\ e.data.model = ModelWhisper)
                => e.unique_id = UniqueIdExample
    /\ last.type = "create_entry" =>
          \E e \in entries :
              /\ e.unique_id = last.unique_id
              /\ e.data.model = last.model

C8_Witness ==
    /\ last.type = "create_entry"
    /\ last.unique_id = UniqueIdExample
    /\ \E e \in entries : e.data.url = UrlVariant

\* C10: a submission ends in exactly one of create_entry, abort with reason
\* already_configured, or the form shown again with an error; only
\* create_entry changes the persisted entries, and it adds one entry; after
\* the form is shown again the flow is still open for another submission.
C10_ThreeOutcomes ==
    [][last'.submitted =>
        \/ /\ last'.type = "create_entry"
           /\ Cardinality(entries') = Cardinality(entries) + 1
           /\ entries \subseteq entries'
           /\ flows'[last'.flow].state = "idle"
        \/ /\ last'.type = "abort"
           /\ last'.reason = "already_configured"
           /\ entries' = entries
           /\ flows'[last'.flow].state = "idle"
        \/ /\ last'.type = "form"
           /\ last'.step_id = "user"
           /\ last'.errors # NoErrors
           /\ entries' = entries
           /\ flows'[last'.flow].state = "form"]_vars

C10_Witness ==
    /\ last.type = "create_entry"
    /\ last.resubmitted

(***************************************************************************)
(* Properties of the transcription entity (checked under SttSpec)          *)
(***************************************************************************)
Returned(c) == calls[c].pc = "done"
FilesOf(c) == {f \in files : f.name = c}
RequestsOf(c) == {r \in remote : r.call = c}

\* C2: async_process_audio_stream never raises to its caller.
C2_NeverRaises == \A c \in Calls : calls[c].pc # "raised"

\* C3: no staging file of a call is left once the call has returned.
C3_StagingFileDeleted == \A c \in Calls : Returned(c) => FilesOf(c) = {}

\* C4: a stream that yields no bytes makes the call return ("", ERROR), and
\* the call neither invokes the remote client nor creates a staging file.
C4_EmptyStream ==
    \A c \in Calls :
        (calls[c].pc # "idle" /\ Flatten(calls[c].stream) = <<>>) =>
            /\ calls[c].nreq = 0
            /\ RequestsOf(c) = {}
            /\ FilesOf(c) = {}
            /\ calls[c].pc # "awaiting"
            /\ Returned(c) => calls[c].result = SpeechResult("", "ERROR")

C4_Witness ==
    \E c \in Calls :
        /\ Returned(c)
        /\ calls[c].stream = << <<>> >>
        /\ calls[c].result = SpeechResult("", "ERROR")

\* C5: for a non-empty stream whose remote call was made, the result is
\* (text of the response, SUCCESS) when the call succeeded and ("", ERROR)
\* when it failed; and any result is SUCCESS only after a successful call.
C5_ResultFollowsRemoteCall ==
    \A c \in Calls :
        (Returned(c) /\ Flatten(calls[c].stream) # <<>>) =>
            /\ calls[c].result.state \in {"SUCCESS", "ERROR"}
            /\ calls[c].result.state = "SUCCESS"
                    <=> calls[c].response.kind = "ok"
            /\ calls[c].response.kind = "ok" =>
                    calls[c].result.text = calls[c].response.text
            /\ calls[c].response.kind # "ok" => calls[c].result.text = ""

C5_Witness ==
    \E c1, c2 \in Calls :
        /\ Returned(c1) /\ Returned(c2)
        /\ calls[c1].result = SpeechResult("hello", "SUCCESS")
        /\ calls[c2].response.kind = "error"
        /\ calls[c2].result = SpeechResult("", "ERROR")

\* C6: whatever the interleaving, the bytes a call has accumulated are the
\* chunks of its own stream read so far, in order, and its staging file and
\* its request carry the bytes of its own stream only.
C6_NoCrossContamination ==
    \A c \in Calls :
        /\ calls[c].data = Flatten(SubSeq(calls[c].stream, 1, calls[c].pos))
        /\ \A f \in FilesOf(c) :
              f.wav.frames \in {Flatten(calls[c].stream), <<>>}
        /\ \A r \in RequestsOf(c) :
              r.file.frames = Flatten(calls[c].stream)

C6_Witness ==
    \E c1, c2 \in Calls :
        /\ calls[c1].pc = "awaiting"
        /\ calls[c1].stream = << <<1>>, <<2, 3>> >>
        /\ calls[c2].pc = "reading"
        /\ calls[c2].stream = << <<2>>, <<>>, <<1>> >>
        /\ calls[c2].pos = 1

\* C9: a call issues the remote request at most once, only after its stream
\* is exhausted, and with the audio made of every chunk in arrival order.
C9_OneRequestAfterExhaustion ==
    \A c \in Calls :
        /\ calls[c].nreq <= 1
        /\ calls[c].nreq = Cardinality(RequestsOf(c))
        /\ calls[c].pos < Len(calls[c].stream) => calls[c].nreq = 0
        /\ \A r \in RequestsOf(c) :
              /\ r.file.frames = Flatten(calls[c].stream)
              /\ r.file.nframes * SampWidth * ChannelMono
                    <= Len(r.file.frames)

C9_Witness ==
    \E c \in Calls :
        /\ Returned(c)
        /\ calls[c].nreq = 1
        /\ calls[c].response.kind = "error"
        /\ calls[c].stream = << <<2>>, <<>>, <<1>> >>

====
